---- MODULE Spec2Model ----
(***************************************************************************)
(* enhydris_autoprocess/models.py as a state machine.                      *)
(*                                                                         *)
(* One AutoProcess configuration (Checks, CurveInterpolation or            *)
(* Aggregation), its source time series and its target time series.        *)
(* Timestamps are whole minutes (Enhydris stores time series records with  *)
(* minute resolution).  A value is <<>> when it is missing (NaN, None) and *)
(* <<x>> otherwise.  A flags string and a configuration string are         *)
(* sequences of their pieces, so that joining and parsing are computed.    *)
(***************************************************************************)
EXTENDS Integers, Sequences, FiniteSets, TLC

VARIABLES
    cfg,        \* the configuration object (a row of Checks, ... and its relations)
    persisted,  \* whether the configuration has been saved to the database
    scheduled,  \* processing runs queued by transaction.on_commit and not yet run
    saved,      \* outcome of the last save()
    source,     \* records of source_timeseries
    target,     \* records of target_timeseries
    run         \* what the last execute() did, "none" since new data arrived

vars == <<cfg, persisted, scheduled, saved, source, target, run>>

\* ------------------------------------------------------------------ bounds

MaxLen == 2
MaxVal == 3

\* ------------------------------------------------------------ basic values

Null == <<>>
IsNull(v) == v = <<>>
Some(x) == <<x>>
Val(v) == v[1]

Max(a, b) == IF a >= b THEN a ELSE b

Rec(t, v, f) == [t |-> t, value |-> v, flags |-> f]

\* ------------------------------------------------------------- RangeCheck

\* pandas: a comparison of a float with None is False, whatever the float
GE(v, bound) == IF IsNull(bound) THEN FALSE ELSE Val(v) >= Val(bound)
LE(v, bound) == IF IsNull(bound) THEN FALSE ELSE Val(v) <= Val(bound)

\* a between() that leaves both ends out
BetweenExclusive(v, low, high) ==
    ~IsNull(v) /\ ~IsNull(low) /\ ~IsNull(high) /\ Val(v) > Val(low) /\ Val(v) < Val(high)

\* Series.between(low, high): inclusive on both ends, False for NaN
Between(v, low, high) == ~IsNull(v) /\ GE(v, low) /\ LE(v, high)

FindOutOfBoundsValues(data, low, high) ==
    [i \in 1..Len(data) |-> ~IsNull(data[i].value) /\ ~Between(data[i].value, low, high)]

ReplaceOutOfBoundsValuesWithNan(data, mask) ==
    [i \in 1..Len(data) |-> IF mask[i] THEN [data[i] EXCEPT !.value = Null] ELSE data[i]]

\* flags += " " where flags != "", then flags += flag
AddFlag(flags, flag) ==
    (IF flags # <<>> THEN flags \o <<" ">> ELSE flags) \o <<flag>>

AddFlagToOutOfBoundsValues(data, mask, flag) ==
    [i \in 1..Len(data) |->
        IF mask[i] THEN [data[i] EXCEPT !.flags = AddFlag(data[i].flags, flag)] ELSE data[i]]

DoHardLimits(rc, data) ==
    LET mask == FindOutOfBoundsValues(data, rc.lower_bound, rc.upper_bound)
    IN  AddFlagToOutOfBoundsValues(ReplaceOutOfBoundsValuesWithNan(data, mask), mask, "RANGE")

\* a soft pass that blanks what it flags, as the hard pass does
SoftLimitsAlsoBlank(rc, data) ==
    LET mask == FindOutOfBoundsValues(data, rc.soft_lower_bound, rc.soft_upper_bound)
    IN  AddFlagToOutOfBoundsValues(ReplaceOutOfBoundsValuesWithNan(data, mask), mask, "SUSPECT")

DoSoftLimits(rc, data) ==
    AddFlagToOutOfBoundsValues(
        data, FindOutOfBoundsValues(data, rc.soft_lower_bound, rc.soft_upper_bound), "SUSPECT")

\* what process_timeseries did: how it ended, the series after the hard limits
\* (Checks), what the aggregation went through (Aggregation), and its result
Processed(status, error, hard, result) ==
    [status |-> status, error |-> error, hard |-> hard, result |-> result,
     source_end_date |-> 0, aggregate_called |-> FALSE, min_count |-> 0,
     aggregated |-> <<>>, trimmed |-> FALSE]

\* RangeCheck.check_timeseries from the series after the hard limits on
CheckTimeseriesAfterHardLimits(rc, hard) == Processed("ok", "", hard, DoSoftLimits(rc, hard))

\* RangeCheck.check_timeseries
CheckTimeseries(rc, data) == CheckTimeseriesAfterHardLimits(rc, DoHardLimits(rc, data))

\* Checks.process_timeseries.  With no RangeCheck row, objects.get raises
\* DoesNotExist and the except clause reads the still unbound local "check".
ChecksProcessTimeseries(c, data) ==
    IF ~c.has_range_check
    THEN Processed("error", "UnboundLocalError", <<>>, <<>>)
    ELSE CheckTimeseries(c.range_check, data)

\* ----------------------------------------------------- CurveInterpolation

\* minutes in a day, scaled down
DayLen == 2

\* a datetime.date used as a slice bound on a DatetimeIndex is that day's midnight
Midnight(date) == date * DayLen

RECURSIVE SortPointsByX(_)
\* curvepoint_set.filter(...).order_by("x")
SortPointsByX(points) ==
    IF points = {} THEN <<>>
    ELSE LET p == CHOOSE q \in points : \A o \in points : q.x <= o.x
         IN  <<p>> \o SortPointsByX(points \ {p})

GetCurve(period) == SortPointsByX(period.points)

RECURSIVE SortPeriodsByStartDate(_)
\* curveperiod_set.order_by("start_date")
SortPeriodsByStartDate(periods) ==
    IF periods = {} THEN <<>>
    ELSE LET p == CHOOSE q \in periods : \A o \in periods : q.start_date <= o.start_date
         IN  <<p>> \o SortPeriodsByStartDate(periods \ {p})

\* np.interp(value, x, y, left=nan, right=nan) for one value; curve is not empty.
\* The curves of the model have integral slopes, so the division is exact.
Interp(v, curve) ==
    IF IsNull(v) THEN Null
    ELSE IF Val(v) < curve[1].x \/ Val(v) > curve[Len(curve)].x THEN Null
    ELSE LET j == CHOOSE k \in 1..Len(curve) :
                      /\ curve[k].x <= Val(v)
                      /\ \A m \in 1..Len(curve) : curve[m].x <= Val(v) => m <= k
         IN  IF j = Len(curve) \/ curve[j].x = Val(v) THEN Some(curve[j].y)
             ELSE Some(curve[j].y + ((Val(v) - curve[j].x) * (curve[j + 1].y - curve[j].y))
                                        \div (curve[j + 1].x - curve[j].x))

\* timeseries.loc[start:end]: label slice, both bounds included
InPeriodSlice(t, period) ==
    Midnight(period.start_date) <= t /\ t <= Midnight(period.end_date)

\* one turn of the loop of CurveInterpolation.process_timeseries
ApplyPeriod(data, period) ==
    [i \in 1..Len(data) |->
        IF InPeriodSlice(data[i].t, period)
        THEN [data[i] EXCEPT !.value = Interp(data[i].value, GetCurve(period)),
                             !.flags = <<>>]
        ELSE data[i]]

RECURSIVE ApplyPeriods(_, _)
ApplyPeriods(data, periods) ==
    IF periods = <<>> THEN data
    ELSE ApplyPeriods(ApplyPeriod(data, Head(periods)), Tail(periods))

\* CurveInterpolation.process_timeseries; np.interp raises ValueError for a
\* curve without points
CurveProcessTimeseries(c, data) ==
    IF \E p \in c.periods : p.points = {}
    THEN Processed("error", "ValueError", <<>>, <<>>)
    ELSE Processed("ok", "", <<>>, ApplyPeriods(data, SortPeriodsByStartDate(c.periods)))

\* ------------------------------------------------------------ Aggregation

Digits == {"0", "1", "2", "3", "4", "5", "6", "7", "8", "9"}

DigitValue(c) ==
    CASE c = "0" -> 0 [] c = "1" -> 1 [] c = "2" -> 2 [] c = "3" -> 3 [] c = "4" -> 4
      [] c = "5" -> 5 [] c = "6" -> 6 [] c = "7" -> 7 [] c = "8" -> 8 [] c = "9" -> 9

RECURSIVE ToInt(_)
\* the number a string of digits writes
ToInt(ds) ==
    IF ds = <<>> THEN 0 ELSE 10 * ToInt(SubSeq(ds, 1, Len(ds) - 1)) + DigitValue(ds[Len(ds)])

\* the longest prefix of s made of digits: what \d* matches
DigitPrefixLen(s) ==
    CHOOSE n \in 0..Len(s) :
        /\ \A i \in 1..n : s[i] \in Digits
        /\ (n < Len(s) => s[n + 1] \notin Digits)

Min3 == <<"m", "i", "n">>

\* minutes in a unit of a time step
UnitMinutes(unit) ==
    CASE unit = Min3 -> 1
      [] unit = <<"H">> -> 60
      [] unit = <<"D">> -> 60 * 24
      [] OTHER -> 0

\* re.match(r"(-?)(\d*)(.*)$", s).group(1, 2, 3).  "." does not match a newline
\* and "$" matches at the end of the string and before a newline that ends it.
ReMatch(s) ==
    LET signLen == IF s # <<>> /\ s[1] = "-" THEN 1 ELSE 0
        afterSign == SubSeq(s, signLen + 1, Len(s))
        numLen == DigitPrefixLen(afterSign)
        rest == SubSeq(afterSign, numLen + 1, Len(afterSign))
        newlines == {i \in 1..Len(rest) : rest[i] = "\n"}
    IN  IF newlines = {}
        THEN [matched |-> TRUE, sign |-> SubSeq(s, 1, signLen),
              number |-> SubSeq(afterSign, 1, numLen), unit |-> rest]
        ELSE IF newlines = {Len(rest)}
        THEN [matched |-> TRUE, sign |-> SubSeq(s, 1, signLen),
              number |-> SubSeq(afterSign, 1, numLen), unit |-> SubSeq(rest, 1, Len(rest) - 1)]
        ELSE [matched |-> FALSE, sign |-> <<>>, number |-> <<>>, unit |-> <<>>]

\* Aggregation._check_resulting_timestamp_offset: "ok" or the exception raised
CheckResultingTimestampOffset(offset) ==
    IF offset = <<>> THEN "ok"
    ELSE LET m == ReMatch(offset)
         IN  IF ~m.matched THEN "AttributeError"
             ELSE IF m.unit # Min3 \/ (m.sign = <<"-">> /\ m.number = <<>>)
             THEN "IntegrityError"
             ELSE "ok"

\* pd.Timedelta(s): NaT for the empty string, a number of minutes for a signed
\* count and a unit, ValueError for anything else (a unit without a count too)
PdTimedelta(s) ==
    IF s = <<>> THEN [kind |-> "NaT", minutes |-> 0]
    ELSE LET signLen == IF s[1] = "-" THEN 1 ELSE 0
             afterSign == SubSeq(s, signLen + 1, Len(s))
             numLen == DigitPrefixLen(afterSign)
             unit == SubSeq(afterSign, numLen + 1, Len(afterSign))
         IN  IF numLen = 0 \/ UnitMinutes(unit) = 0
             THEN [kind |-> "error", minutes |-> 0]
             ELSE [kind |-> "ok",
                   minutes |-> (IF signLen = 1 THEN -1 ELSE 1)
                               * ToInt(SubSeq(afterSign, 1, numLen)) * UnitMinutes(unit)]

\* Aggregation._get_target_step
GetTargetStep(time_step) ==
    IF time_step[1] \notin Digits THEN <<"1">> \o time_step ELSE time_step

\* the quotient rounded up
DivideCeil(source_step, target_step) ==
    (PdTimedelta(target_step).minutes + source_step - 1) \div source_step

\* Aggregation._divide_target_step_by_source_step: int() of the quotient of
\* two positive lengths of time
DivideTargetStepBySourceStep(source_step, target_step) ==
    PdTimedelta(target_step).minutes \div source_step

\* the min_count of Aggregation._aggregate_time_series
MinCount(source_step, target_step, max_missing) ==
    Max(DivideTargetStepBySourceStep(source_step, target_step) - max_missing, 1)

\* haggregate.regularize: one record per step from the first to the last
\* timestamp, the records that are not in the source being missing and flagged
Regularize(data, step) ==
    IF data = <<>> THEN <<>>
    ELSE LET first == data[1].t
             n == (data[Len(data)].t - first) \div step + 1
         IN  [k \in 1..n |->
                 LET t == first + (k - 1) * step
                 IN  IF \E i \in 1..Len(data) : data[i].t = t
                     THEN data[CHOOSE i \in 1..Len(data) : data[i].t = t]
                     ELSE Rec(t, Null, <<"DATEINSERT">>)]

\* pd.infer_freq(index) of a regular index; fewer than 3 timestamps: ValueError
InferFreq(data, step) ==
    IF Len(data) < 3 THEN [status |-> "error", step |-> 0] ELSE [status |-> "ok", step |-> step]

RECURSIVE Gcd(_, _)
Gcd(a, b) == IF b = 0 THEN a ELSE Gcd(b, a % b)

\* an aggregated value is the exact quotient <<numerator, denominator>>
Frac(num, den) == <<num \div Gcd(num, den), den \div Gcd(num, den)>>

RECURSIVE SumOf(_)
SumOf(xs) == IF xs = <<>> THEN 0 ELSE Head(xs) + SumOf(Tail(xs))

\* the reduction of the values of a window that are not missing
Reduce(method, xs) ==
    CASE method = "sum" -> Frac(SumOf(xs), 1)
      [] method = "mean" -> Frac(SumOf(xs), Len(xs))
      [] method = "max" ->
            Frac(CHOOSE m \in {xs[i] : i \in 1..Len(xs)} : \A i \in 1..Len(xs) : xs[i] <= m, 1)
      [] method = "min" ->
            Frac(CHOOSE m \in {xs[i] : i \in 1..Len(xs)} : \A i \in 1..Len(xs) : m <= xs[i], 1)

\* the closing boundary of the window that holds timestamp t (windows right-closed)
WindowLabel(t, width) == width * ((t + width - 1) \div width)

\* the offset haggregate.aggregate subtracts from the timestamps: a signed count,
\* 1 when absent, of minutes
AggregateOffset(offset) ==
    IF offset = <<>> THEN 0
    ELSE LET m == ReMatch(offset)
         IN  (IF m.sign = <<"-">> THEN -1 ELSE 1)
             * (IF m.number = <<>> THEN 1 ELSE ToInt(m.number))

\* the values, of those that are not missing, in the window that closes at label
WindowValues(data, label, width) ==
    LET InWindow(r) == label - width < r.t /\ r.t <= label /\ ~IsNull(r.value)
    IN  [i \in 1..Len(SelectSeq(data, InWindow)) |-> Val(SelectSeq(data, InWindow)[i].value)]

\* the record of a window: the reduction of its values when at least min_count
\* are there, with MISS when some are not
WindowRecord(label, xs, method, min_count, capacity) ==
    IF Len(xs) >= min_count /\ Len(xs) >= 1
    THEN Rec(label, Reduce(method, xs), IF Len(xs) < capacity THEN <<"MISS">> ELSE <<>>)
    ELSE Rec(label, Null, <<>>)

\* one record per window of width minutes, closed and labelled on the right
ResampleWindows(data, width, first, method, min_count, capacity) ==
    [k \in 1..((WindowLabel(data[Len(data)].t, width) - first) \div width + 1) |->
        WindowRecord(first + (k - 1) * width,
                     WindowValues(data, first + (k - 1) * width, width),
                     method, min_count, capacity)]

\* the resampling of haggregate.aggregate to windows of target_step
Resample(data, source_step, target_step, method, min_count) ==
    IF data = <<>> THEN <<>>
    ELSE ResampleWindows(data, PdTimedelta(target_step).minutes,
                         WindowLabel(data[1].t, PdTimedelta(target_step).minutes),
                         method, min_count,
                         PdTimedelta(target_step).minutes \div source_step)

\* the records from the first to the last that has a value
RemoveLeadingAndTrailingNas(data) ==
    LET valued == {i \in 1..Len(data) : ~IsNull(data[i].value)}
    IN  IF valued = {} THEN <<>>
        ELSE SubSeq(data, CHOOSE i \in valued : \A j \in valued : i <= j,
                          CHOOSE i \in valued : \A j \in valued : j <= i)

\* haggregate.aggregate(hts, target_step, method, min_count, target_timestamp_offset):
\* the windows' records without the leading and trailing ones that have no value,
\* the offset subtracted from their timestamps
Aggregate(data, source_step, target_step, method, min_count, offset) ==
    LET kept == RemoveLeadingAndTrailingNas(
                    Resample(data, source_step, target_step, method, min_count))
    IN  [k \in 1..Len(kept) |->
            [kept[k] EXCEPT !.t = kept[k].t - AggregateOffset(offset)]]

\* "MISS" in flags: the pieces of a flags string that hold the text MISS
HasMiss(flags) == \E i \in 1..Len(flags) : flags[i] = "MISS"

\* Aggregation._last_target_record_needs_trimming.  A timestamp plus NaT is NaT,
\* and a comparison with NaT is False.
LastTargetRecordNeedsTrimming(data, source_end_date, offset) ==
    IF data = <<>> THEN [status |-> "ok", trim |-> FALSE]
    ELSE LET td == PdTimedelta(offset)
             last == data[Len(data)]
         IN  IF td.kind = "error" THEN [status |-> "error", trim |-> FALSE]
             ELSE IF td.kind = "NaT" THEN [status |-> "ok", trim |-> FALSE]
             ELSE [status |-> "ok",
                   trim |-> HasMiss(last.flags) /\ source_end_date < last.t + td.minutes]

\* Aggregation.process_timeseries left by an exception before the aggregator ran
NoAgg(error) == Processed("error", error, <<>>, <<>>)

\* Aggregation._trim_last_record_if_not_complete; needs is what
\* _last_target_record_needs_trimming returned or raised
TrimLastRecordIfNotComplete(source_end_date, min_count, aggregated, needs) ==
    [status |-> IF needs.status = "error" THEN "error" ELSE "ok",
     error |-> IF needs.status = "error" THEN "ValueError" ELSE "",
     hard |-> <<>>,
     source_end_date |-> source_end_date,
     aggregate_called |-> TRUE,
     min_count |-> min_count,
     aggregated |-> aggregated,
     trimmed |-> needs.status = "ok" /\ needs.trim,
     result |-> IF needs.status = "error" THEN <<>>
                ELSE IF needs.trim THEN SubSeq(aggregated, 1, Len(aggregated) - 1)
                ELSE aggregated]

\* Aggregation.process_timeseries from the aggregated series on
ProcessAggregated(c, source_end_date, min_count, aggregated) ==
    TrimLastRecordIfNotComplete(
        source_end_date, min_count, aggregated,
        LastTargetRecordNeedsTrimming(aggregated, source_end_date,
                                      c.resulting_timestamp_offset))

\* Aggregation._aggregate_time_series from min_count on: the call of aggregate
AggregateWithMinCount(c, source_end_date, regular, source_step, min_count) ==
    ProcessAggregated(
        c, source_end_date, min_count,
        Aggregate(regular, source_step, GetTargetStep(c.target_time_step), c.method,
                  min_count, c.resulting_timestamp_offset))

\* Aggregation._aggregate_time_series; freq is what _get_source_step returned or
\* raised
AggregateTimeSeries(c, source_end_date, regular, freq) ==
    IF freq.status = "error" THEN NoAgg("ValueError")
    ELSE AggregateWithMinCount(
             c, source_end_date, regular, freq.step,
             MinCount(freq.step, GetTargetStep(c.target_time_step), c.max_missing))

\* Aggregation.process_timeseries from the regularized series on
ProcessRegularized(c, source_end_date, regular) ==
    AggregateTimeSeries(c, source_end_date, regular, InferFreq(regular, c.source_step))

\* Aggregation.process_timeseries; index[-1] of an empty index raises IndexError
AggregationProcessTimeseries(c, data) ==
    IF data = <<>> THEN NoAgg("IndexError")
    ELSE ProcessRegularized(c, data[Len(data)].t, Regularize(data, c.source_step))

\* ------------------------------------------------------------ AutoProcess

\* target_timeseries.end_date: the last timestamp, None (<<>>) when there is none
EndDate(series) == IF series = <<>> THEN Null ELSE Some(series[Len(series)].t)

\* a start date without the added minute
GetStartDateNoIncrement(series) == EndDate(series)

\* AutoProcess._get_start_date
GetStartDate(series) ==
    IF IsNull(EndDate(series)) THEN Null ELSE Some(Val(EndDate(series)) + 1)

\* Timeseries.get_data(start_date=...): the records from start_date on, start_date
\* included; all of them when start_date is None
GetData(series, start_date) ==
    LET FromStart(r) == IsNull(start_date) \/ r.t >= Val(start_date)
    IN  SelectSeq(series, FromStart)

\* Timeseries.append_data refuses records that are not after the end of the series
AppendConflicts(series, data) ==
    series # <<>> /\ \E i \in 1..Len(data) : data[i].t <= series[Len(series)].t

\* self._subclass.process_timeseries()
ProcessTimeseries(c, data) ==
    CASE c.variant = "checks" -> ChecksProcessTimeseries(c, data)
      [] c.variant = "curveinterpolation" -> CurveProcessTimeseries(c, data)
      [] c.variant = "aggregation" -> AggregationProcessTimeseries(c, data)

\* AutoProcess.execute from the result p of process_timeseries on: append_data
AppendData(tgt, slice, p) ==
    [status |-> IF p.status = "ok" /\ AppendConflicts(tgt, p.result)
                THEN "conflict" ELSE p.status,
     error |-> IF p.status = "ok" /\ AppendConflicts(tgt, p.result)
               THEN "IntegrityError" ELSE p.error,
     before |-> tgt,
     slice |-> slice,
     hard |-> p.hard,
     source_end_date |-> p.source_end_date,
     aggregate_called |-> p.aggregate_called,
     min_count |-> p.min_count,
     aggregated |-> p.aggregated,
     trimmed |-> p.trimmed,
     result |-> p.result,
     after |-> IF p.status = "ok" /\ ~AppendConflicts(tgt, p.result)
               THEN tgt \o p.result ELSE tgt]

\* AutoProcess.execute from the fetched slice on
ExecuteSlice(c, tgt, slice) == AppendData(tgt, slice, ProcessTimeseries(c, slice))

\* AutoProcess.execute on a target series: what it fetched, computed and stored
ExecuteOn(c, src, tgt) == ExecuteSlice(c, tgt, GetData(src, GetStartDate(tgt)))

NoRun ==
    [status |-> "none", error |-> "", before |-> <<>>, slice |-> <<>>, hard |-> <<>>,
     source_end_date |-> 0, aggregate_called |-> FALSE, min_count |-> 0,
     aggregated |-> <<>>, trimmed |-> FALSE, result |-> <<>>, after |-> <<>>]

NoSave == [status |-> "none", error |-> ""]

\* ----------------------------------------------------------- the inputs

Values == {Null} \cup {Some(x) : x \in 0..MaxVal}

BoundValues == {1, 2}

\* the soft bounds are both set or both left null
RangeChecks ==
    {[lower_bound |-> Some(lo), upper_bound |-> Some(hi),
      soft_lower_bound |-> soft[1], soft_upper_bound |-> soft[2]] :
        lo \in BoundValues, hi \in BoundValues,
        soft \in {<<Null, Null>>} \cup {<<Some(x), Some(y)>> : x, y \in BoundValues}}

ChecksConfigs ==
    {[variant |-> "checks", has_range_check |-> FALSE, range_check |-> <<>>]}
    \cup {[variant |-> "checks", has_range_check |-> TRUE, range_check |-> rc] :
            rc \in RangeChecks}

Point(x, y) == [x |-> x, y |-> y]

Period(start_date, end_date, points) ==
    [start_date |-> start_date, end_date |-> end_date, points |-> points]

CurveA == {Point(0, 0), Point(2, 4)}
CurveB == {Point(1, 3), Point(2, 1)}

PeriodSets ==
    { {},
      {Period(0, 0, CurveA)},
      {Period(0, 1, CurveA)},
      {Period(1, 1, CurveB)},
      {Period(1, 2, CurveB), Period(0, 0, CurveA)},
      {Period(0, 1, CurveA), Period(1, 1, CurveB)} }

CurveConfigs == {[variant |-> "curveinterpolation", periods |-> ps] : ps \in PeriodSets}

Methods == {"sum", "mean", "max", "min"}

MaxMissing == 2

\* the source's time step in minutes with the target_time_step
Steps ==
    { <<1, <<"2", "m", "i", "n">> >>,
      <<1, <<"3", "m", "i", "n">> >>,
      <<2, <<"3", "m", "i", "n">> >>,
      <<2, Min3>> }

Offsets ==
    { <<>>,
      Min3,
      <<"1">> \o Min3,
      <<"-", "1">> \o Min3,
      <<"-">> \o Min3,
      <<"1", "H">>,
      <<"1">> \o Min3 \o <<"\n">>,
      <<"1", "\n">> \o Min3 }

AggregationConfigs ==
    {[variant |-> "aggregation", source_step |-> st[1], target_time_step |-> st[2],
      method |-> m, max_missing |-> mm, resulting_timestamp_offset |-> off] :
        st \in Steps, m \in Methods, mm \in {0, 1, MaxMissing}, off \in Offsets}

SourceStep(c) == IF c.variant = "aggregation" THEN c.source_step ELSE 1

Gaps(c) == IF c.variant = "aggregation" THEN {1, 2} ELSE {1}

AggregationValues == {Null, Some(1)}

InputValues(c) == IF c.variant = "aggregation" THEN AggregationValues ELSE Values

\* a run of an Aggregation needs three records, so its source may hold one more
SourceLimit(c) == IF c.variant = "aggregation" THEN MaxLen + 1 ELSE MaxLen

InputFlags(c) == IF c.variant = "aggregation" THEN {<<>>} ELSE {<<>>, <<"A">>}

\* --------------------------------------------------------------- actions

InitWith(configs) ==
    /\ cfg \in configs
    /\ persisted = FALSE
    /\ scheduled = 0
    /\ saved = NoSave
    /\ source = <<>>
    /\ target = <<>>
    /\ run = NoRun

Init == InitWith(ChecksConfigs \cup CurveConfigs \cup AggregationConfigs)

\* Aggregation.save and AutoProcess.save, when the object is created
Save ==
    /\ ~persisted
    /\ LET check == IF cfg.variant = "aggregation"
                    THEN CheckResultingTimestampOffset(cfg.resulting_timestamp_offset)
                    ELSE "ok"
       IN  IF check = "ok"
           THEN /\ persisted' = TRUE
                /\ scheduled' = scheduled + 1
                /\ saved' = [status |-> "ok", error |-> ""]
           ELSE /\ saved' = [status |-> "error", error |-> check]
                /\ UNCHANGED <<persisted, scheduled>>
    /\ UNCHANGED <<cfg, source, target, run>>

\* new data is stored in the source time series
Arrive ==
    /\ Len(source) < SourceLimit(cfg)
    /\ \E g \in Gaps(cfg), v \in InputValues(cfg), f \in InputFlags(cfg) :
          source' = Append(source,
                           Rec((IF source = <<>> THEN 0 ELSE source[Len(source)].t)
                                   + g * SourceStep(cfg), v, f))
    /\ run' = NoRun
    /\ UNCHANGED <<cfg, persisted, scheduled, saved, target>>

\* tasks.execute_auto_process: AutoProcess.execute
Execute ==
    /\ persisted
    /\ run' = ExecuteOn(cfg, source, target)
    /\ target' = run'.after
    /\ scheduled' = IF scheduled > 0 THEN scheduled - 1 ELSE 0
    /\ UNCHANGED <<cfg, persisted, saved, source>>

Next == Save \/ Arrive \/ Execute

Spec == Init /\ [][Next]_vars

\* ---------------------------------------------------------------- claims

IsChecksRun ==
    cfg.variant = "checks" /\ cfg.has_range_check /\ run.status = "ok"

HasPiece(flags, piece) == \E k \in 1..Len(flags) : flags[k] = piece

Inside(v, low, high) == Val(low) <= Val(v) /\ Val(v) <= Val(high)

\* C1: for hard bounds lower_bound <= upper_bound, after check_timeseries every
\* value that is not missing lies within the bounds, a value within the bounds
\* (the bounds included) is kept and gains no RANGE, and a value outside them is
\* missing and has RANGE appended to its flags, after one space when it had flags.
C1_HardLimits ==
    (IsChecksRun /\ Val(cfg.range_check.lower_bound) <= Val(cfg.range_check.upper_bound)) =>
        /\ Len(run.result) = Len(run.slice)
        /\ \A i \in 1..Len(run.slice) :
              LET in == run.slice[i]
                  out == run.result[i]
                  lo == cfg.range_check.lower_bound
                  hi == cfg.range_check.upper_bound
              IN  /\ out.t = in.t
                  /\ ~IsNull(out.value) => Inside(out.value, lo, hi)
                  /\ (~IsNull(in.value) /\ Inside(in.value, lo, hi)) =>
                        out.value = in.value /\ ~HasPiece(out.flags, "RANGE")
                  /\ (~IsNull(in.value) /\ ~Inside(in.value, lo, hi)) =>
                        /\ IsNull(out.value)
                        /\ out.flags = IF in.flags = <<>> THEN <<"RANGE">>
                                       ELSE in.flags \o <<" ", "RANGE">>

C1_Witness ==
    /\ IsChecksRun
    /\ Val(cfg.range_check.lower_bound) < Val(cfg.range_check.upper_bound)
    /\ \E i \in 1..Len(run.slice) :
          /\ run.slice[i].flags # <<>>
          /\ ~IsNull(run.slice[i].value)
          /\ Val(run.slice[i].value) > Val(cfg.range_check.upper_bound)
          /\ run.result[i].flags = <<"A", " ", "RANGE">>
    /\ \E i \in 1..Len(run.slice) :
          /\ run.slice[i].value = cfg.range_check.lower_bound
          /\ run.result[i].value = run.slice[i].value

SoftBoundsSet ==
    ~IsNull(cfg.range_check.soft_lower_bound) /\ ~IsNull(cfg.range_check.soft_upper_bound)

\* C6: with both soft bounds set, the soft pass changes no value; a record gains
\* SUSPECT exactly when its value after the hard pass is not missing and lies
\* outside the soft bounds (inclusive); no record gains both RANGE and SUSPECT.
C6_SoftLimits ==
    (IsChecksRun /\ SoftBoundsSet) =>
        /\ Len(run.result) = Len(run.hard)
        /\ \A i \in 1..Len(run.hard) :
              LET mid == run.hard[i]
                  out == run.result[i]
                  suspect == /\ ~IsNull(mid.value)
                             /\ ~Inside(mid.value, cfg.range_check.soft_lower_bound,
                                        cfg.range_check.soft_upper_bound)
              IN  /\ out.t = mid.t
                  /\ out.value = mid.value
                  /\ out.flags = IF ~suspect THEN mid.flags
                                 ELSE IF mid.flags = <<>> THEN <<"SUSPECT">>
                                 ELSE mid.flags \o <<" ", "SUSPECT">>
                  /\ ~(HasPiece(out.flags, "RANGE") /\ HasPiece(out.flags, "SUSPECT"))

C6_Witness ==
    /\ IsChecksRun
    /\ SoftBoundsSet
    /\ \E i \in 1..Len(run.result) :
          HasPiece(run.result[i].flags, "SUSPECT") /\ run.slice[i].flags # <<>>
    /\ \E i \in 1..Len(run.result) :
          HasPiece(run.result[i].flags, "RANGE") /\ IsNull(run.result[i].value)

\* C7: with both soft bounds unset the soft pass is a no-op: the output is the
\* output of the hard pass and no record gains SUSPECT.
C7_SoftUnsetIsNoOp ==
    (IsChecksRun /\ IsNull(cfg.range_check.soft_lower_bound)
                 /\ IsNull(cfg.range_check.soft_upper_bound)) =>
        /\ run.result = run.hard
        /\ \A i \in 1..Len(run.result) : ~HasPiece(run.result[i].flags, "SUSPECT")

\* the last minute of a day
EndOfDay(date) == date * DayLen + (DayLen - 1)

\* from the start of start_date to the end of end_date
InPeriodWholeEndDay(t, period) ==
    Midnight(period.start_date) <= t /\ t <= EndOfDay(period.end_date)

Disjoint(periods) ==
    \A p, q \in periods : p # q => (p.end_date < q.start_date \/ q.end_date < p.start_date)

\* C5: with periods of disjoint date ranges, every record whose timestamp is in
\* [start_date, end_date] of a period, the whole of end_date included, has empty
\* flags and the period's interpolation of its value; every other record is
\* unchanged.
C5_CurvePostcondition ==
    (cfg.variant = "curveinterpolation" /\ run.status = "ok" /\ Disjoint(cfg.periods)) =>
        /\ Len(run.result) = Len(run.slice)
        /\ \A i \in 1..Len(run.slice) :
              LET in == run.slice[i]
                  out == run.result[i]
                  covering == {p \in cfg.periods : InPeriodWholeEndDay(in.t, p)}
              IN  IF covering = {} THEN out = in
                  ELSE \A p \in covering :
                          out = Rec(in.t, Interp(in.value, GetCurve(p)), <<>>)

IsAggregation == cfg.variant = "aggregation"

Minutes(time_step) == PdTimedelta(GetTargetStep(time_step)).minutes

\* C4 as claimed: the min_count passed to the aggregator is
\* max(1, ceil(target_step / source_step) - max_missing).
C4_MinCountCeil ==
    (IsAggregation /\ run.aggregate_called) =>
        \E q \in 0..Minutes(cfg.target_time_step) :
            /\ (q - 1) * cfg.source_step < Minutes(cfg.target_time_step)
            /\ Minutes(cfg.target_time_step) <= q * cfg.source_step
            /\ run.min_count = IF q - cfg.max_missing >= 1 THEN q - cfg.max_missing ELSE 1

\* C4, amended: the min_count passed to the aggregator is
\* max(1, floor(target_step / source_step) - max_missing), never less than 1.
C4_MinCountFloor ==
    (IsAggregation /\ run.aggregate_called) =>
        \E q \in 0..Minutes(cfg.target_time_step) :
            /\ q * cfg.source_step <= Minutes(cfg.target_time_step)
            /\ Minutes(cfg.target_time_step) < (q + 1) * cfg.source_step
            /\ run.min_count = IF q - cfg.max_missing >= 1 THEN q - cfg.max_missing ELSE 1

C4_Witness ==
    /\ IsAggregation
    /\ run.aggregate_called
    /\ Minutes(cfg.target_time_step) % cfg.source_step # 0
    /\ Minutes(cfg.target_time_step) > cfg.source_step
    /\ cfg.max_missing * cfg.source_step >= Minutes(cfg.target_time_step)
    /\ run.min_count = 1

\* C3: the last aggregated record is dropped exactly when it carries MISS and the
\* last timestamp of the fetched slice is before the record's timestamp plus the
\* offset (zero when there is none); nothing else is ever dropped.
C3_TrailingTrim ==
    (IsAggregation /\ run.status \in {"ok", "conflict"}) =>
        LET agg == run.aggregated
            drop == /\ agg # <<>>
                    /\ HasPiece(agg[Len(agg)].flags, "MISS")
                    /\ run.source_end_date
                         < agg[Len(agg)].t + AggregateOffset(cfg.resulting_timestamp_offset)
        IN  run.result = IF drop THEN SubSeq(agg, 1, Len(agg) - 1) ELSE agg

\* C8: execute on an empty source slice is not an error: it completes with an
\* empty result and leaves the target series as it was.
C8_EmptySliceIsNoError ==
    (run.status # "none" /\ run.slice = <<>>) =>
        run.status = "ok" /\ run.result = <<>> /\ target = run.before

\* what one execute over the records on an empty target stores
SingleRun(records) == ExecuteOn(cfg, records, <<>>).after

\* C2: a run that starts from what one execute over the earlier records stored,
\* and finds a batch of new records, is not refused by append_data and leaves
\* the target holding what one execute over the whole source on an empty target
\* stores.  By induction over the batches this is the claim for every split.
C2_IncrementalIsReproducible ==
    (/\ run.status # "none"
     /\ \E k \in 0..Len(source) - 1 : run.before = SingleRun(SubSeq(source, 1, k))) =>
        run.status # "conflict" /\ target = SingleRun(source)

After(series, end) ==
    LET Later(r) == IsNull(end) \/ r.t > Val(end)
    IN  SelectSeq(series, Later)

StrictlyIncreasing(series) ==
    \A i \in 1..Len(series) - 1 : series[i].t < series[i + 1].t

WellFormedOffset(offset) ==
    \E signLen \in {0, 1} :
        /\ Len(offset) >= signLen + 3
        /\ signLen = 1 => offset[1] = "-"
        /\ SubSeq(offset, Len(offset) - 2, Len(offset)) = Min3
        /\ \A i \in signLen + 1..Len(offset) - 3 : offset[i] \in Digits
        /\ ~(signLen = 1 /\ Len(offset) = 4)

\* C9: save() of an Aggregation whose offset is not empty and not well formed
\* raises before anything is stored or scheduled; with an empty or well-formed
\* offset it stores the configuration and schedules exactly one run.
C9_SaveChecksOffset ==
    [][(IsAggregation /\ saved' # saved) =>
          IF cfg.resulting_timestamp_offset = <<>>
               \/ WellFormedOffset(cfg.resulting_timestamp_offset)
          THEN saved'.status = "ok" /\ persisted' /\ scheduled' = scheduled + 1
          ELSE /\ saved'.status = "error"
               /\ UNCHANGED <<persisted, scheduled, target>>
               /\ ~persisted']_vars

====
